---- MODULE Spec2Model ----
(***************************************************************************)
(* Model of two components of the engine:                                  *)
(*   - ViewConversionDispatcher (conversion/viewconversiondispatcher.js):  *)
(*     convert, _convertItem, _convertChildren and the handlers they fire; *)
(*   - InsertOperation (model/operation/insertoperation.js): constructor,  *)
(*     clone, getReversed, _execute, fromJSON.                              *)
(* The dispatcher is synchronous and re-entrant: its call stack is the     *)
(* variable `stack`, one frame per active call of convert, _convertItem,   *)
(* a suspended handler, or _convertChildren.                               *)
(***************************************************************************)
EXTENDS Integers, Sequences, FiniteSets, TLC

\* Largest number of handlers registered on one dispatcher.
MaxHandlers == 3

-----------------------------------------------------------------------------
(* Values a handler may store in data.output.                              *)

Null == [t |-> "null", id |-> 0, ch |-> <<>>]
Undefined == [t |-> "undefined", id |-> 0, ch |-> <<>>]
False == [t |-> "false", id |-> 0, ch |-> <<>>]
MNode(n, ch) == [t |-> "node", id |-> n, ch |-> ch]
MSeq(items) == [t |-> "seq", id |-> 0, ch |-> items]

\* JavaScript truthiness: null, undefined and false are falsy; objects and
\* arrays (also the empty array) are truthy.
Truthy(v) == v.t \in {"node", "seq"}

\* Array.prototype.concat: an array argument is spread, anything else appended.
Concat(a, b) == IF b.t = "seq" THEN a \o b.ch ELSE Append(a, b)

-----------------------------------------------------------------------------
(* The view tree: node id -> [kind, name, kids]. Node 1 is the root.       *)

VNode(kind, name, kids) == [kind |-> kind, name |-> name, kids |-> kids]

\* <fragment> <p>text</p> text <a/> </fragment>
TreeFragment ==
    [n \in 1..5 |->
        CASE n = 1 -> VNode("fragment", "", <<2, 3, 4>>)
          [] n = 2 -> VNode("element", "p", <<5>>)
          [] n = 3 -> VNode("text", "", <<>>)
          [] n = 4 -> VNode("element", "a", <<>>)
          [] OTHER -> VNode("text", "", <<>>)]

\* <p> <a>text</a> text <p/> </p>
TreeElement ==
    [n \in 1..5 |->
        CASE n = 1 -> VNode("element", "p", <<2, 3, 4>>)
          [] n = 2 -> VNode("element", "a", <<5>>)
          [] n = 3 -> VNode("text", "", <<>>)
          [] n = 4 -> VNode("element", "p", <<>>)
          [] OTHER -> VNode("text", "", <<>>)]

ViewTrees == {TreeFragment, TreeElement}

\* <p> <p>text</p> text <a/> </p>
TreeNested ==
    [n \in 1..5 |->
        CASE n = 1 -> VNode("element", "p", <<2, 3, 4>>)
          [] n = 2 -> VNode("element", "p", <<5>>)
          [] n = 3 -> VNode("text", "", <<>>)
          [] n = 4 -> VNode("element", "a", <<>>)
          [] OTHER -> VNode("text", "", <<>>)]

\* The trees traversed: also a block below a block.
TraverseTrees == ViewTrees \cup {TreeNested}

\* The items a caller hands to convert().
ConvertItems == {1, 2}

RECURSIVE Subtree(_, _)
\* The nodes of the subtree rooted at n, as ViewConsumable.createFrom walks it.
Subtree(v, n) ==
    {n} \cup UNION {Subtree(v, v[n].kids[i]) : i \in 1..Len(v[n].kids)}

-----------------------------------------------------------------------------
(* ViewConsumable: the set of <<node, facet>> pairs still consumable.      *)

FacetsOf(v, n) ==
    IF v[n].kind = "element"
    THEN {"name"} \cup (IF v[n].name = "a" THEN {"href"} ELSE {})
    ELSE {"self"}

\* ViewConsumable.createFrom( viewItem ): every facet of every node below.
CreateFrom(v, item) ==
    UNION {{<<n, f>> : f \in FacetsOf(v, n)} : n \in Subtree(v, item)}

\* consumable.test( node, facets ): all of them are still consumable.
Test(cons, n, facets) == \A f \in facets : <<n, f>> \in cons

\* consumable.consume( node, facets ): the tracker after the call.
Consume(cons, n, facets) ==
    IF Test(cons, n, facets) THEN cons \ {<<n, f>> : f \in facets} ELSE cons

-----------------------------------------------------------------------------
(* Handlers. A handler is registered on an event name (a sequence of       *)
(* segments, "element:p" is <<"element", "p">>) and runs one of a small    *)
(* set of converter bodies, described by what it consumes, when it acts,   *)
(* how it recurses and what it writes to data.output.                      *)

Beh(consume, cond, recurse, ad, push, write, prune) ==
    [consume |-> consume, cond |-> cond, recurse |-> recurse,
     ad |-> ad, push |-> push, write |-> write, prune |-> prune]

\* The element:p converter as the class documentation prints it: its body
\* is under if ( !consumable.consume( data.input, { name: true } ) ), so it
\* runs when the consume call fails.
DocParagraph == Beh({"name"}, "ifNotConsumed", "children", "data", TRUE, "node", FALSE)
\* Block element converter: consume the name, convert the children with the
\* element pushed on context, output the element holding them.
Paragraph == Beh({"name"}, "ifConsumed", "children", "data", TRUE, "node", FALSE)
\* Inline converter of the class documentation: output the converted children.
Link == Beh({"name", "href"}, "ifConsumed", "children", "data", FALSE, "children", FALSE)
\* Writes an output without consuming anything.
Blind == Beh({}, "always", "no", "data", FALSE, "node", FALSE)
\* Text converter.
TextConv == Beh({"self"}, "ifConsumed", "no", "data", FALSE, "node", FALSE)
\* Writes the falsy, non-null value false.
Falsy == Beh({}, "always", "no", "data", FALSE, "false", FALSE)
\* Document fragment converter: output the converted children.
FragConv == Beh({}, "always", "children", "data", FALSE, "children", FALSE)
\* Converts its first child with convertItem, handing its data record on.
Eager == Beh({}, "always", "item", "data", FALSE, "none", FALSE)
\* viewCleanup listener: drops a trailing empty element of the view item.
Prune == Beh({}, "always", "no", "data", FALSE, "none", TRUE)
\* Text converter that consumes the text and then raises an error.
Faulty == Beh({"self"}, "always", "no", "data", FALSE, "throw", FALSE)

Reg(pat, beh) == [pat |-> pat, beh |-> beh]

Registrations ==
    { Reg(<<"element", "p">>, Paragraph),
      Reg(<<"element", "a">>, Link),
      Reg(<<"element">>, Blind),
      Reg(<<"element">>, Eager),
      Reg(<<"text">>, TextConv),
      Reg(<<"text">>, Falsy),
      Reg(<<"documentFragment">>, FragConv),
      Reg(<<"viewCleanup">>, Prune) }

\* The converters of the class documentation, next to a text converter, a
\* converter that raises and a viewCleanup listener.
DocRegistrations ==
    { Reg(<<"element", "p">>, DocParagraph),
      Reg(<<"element", "a">>, Link),
      Reg(<<"text">>, TextConv),
      Reg(<<"text">>, Faulty),
      Reg(<<"viewCleanup">>, Prune) }

\* Converters that recurse by convertChildren, and a viewCleanup listener.
TraverseRegistrations ==
    { Reg(<<"element", "p">>, Paragraph),
      Reg(<<"element", "a">>, Link),
      Reg(<<"text">>, TextConv),
      Reg(<<"documentFragment">>, FragConv),
      Reg(<<"viewCleanup">>, Prune) }

-----------------------------------------------------------------------------
(* The conversion request record `data` and lodash extend.                 *)
(* An object is the set of its own fields (`has`) and their values.        *)

Obj(has, input, output, context) ==
    [has |-> has, input |-> input, output |-> output, context |-> context]

EmptyObj == Obj({}, 0, Undefined, 0)

\* extend( target, source ): every field of source overrides target's.
Extend(target, source) ==
    Obj(target.has \cup source.has,
        IF "input" \in source.has THEN source.input ELSE target.input,
        IF "output" \in source.has THEN source.output ELSE target.output,
        IF "context" \in source.has THEN source.context ELSE target.context)

\* A bug: the record is built without the fields of additionalData.
ExtendData_bare(additionalData, input) ==
    Extend(EmptyObj, Obj({"input", "output"}, input, Null, 0))

\* A bug: the caller's fields override input and output.
ExtendData_adWins(additionalData, input) ==
    Extend(Extend(EmptyObj, Obj({"input", "output"}, input, Null, 0)), additionalData)

\* extend( {}, additionalData, { input: input, output: null } )
ExtendData(additionalData, input) ==
    Extend(Extend(EmptyObj, additionalData), Obj({"input", "output"}, input, Null, 0))

\* The additionalData objects a caller passes to convert(): none (the default
\* {}), a context array, or a record that already carries input and output.
CallerData ==
    { EmptyObj,
      Obj({"context"}, 0, Undefined, 1),
      Obj({"context", "input", "output"}, 3, MNode(9, <<>>), 1) }

-----------------------------------------------------------------------------
VARIABLES
    view,          \* the view tree
    listeners,     \* registered handlers, in registration order
    stack,         \* call stack of the dispatcher
    recs,          \* heap of data objects: recs[1] is convert's additionalData
    ctx,           \* the context array additionalData.context refers to
    consumable,    \* the ViewConsumable of the pass
    result,        \* what convert() returned
    passItem,      \* the viewItem of the current pass
    log,           \* notifications fired in the pass, in order
    lastFire,      \* the handlers run by the last finished notification
    lastChildren,  \* the last finished convertChildren call
    consumeLog,    \* the consume calls of the pass and their results
    snapshot,      \* the consumable as created at the start of the pass
    writes,        \* data objects whose output a handler has written
    prev,          \* the pass before a repeated convert call, as it ended
    mnodes,        \* heap of model nodes
    docRoot,       \* the ids of the children of the document root
    version,       \* document.version
    op,            \* the insert operation: position, nodes, baseVersion
    rev,           \* the operation getReversed() returned last
    phase,         \* "new", "inserted", "edited" or "reverted"
    threw,         \* applying an operation raised an error
    args,          \* the arguments the operation was constructed with
    before,        \* content and version of the document before the operation
    originals,     \* the node objects the operation held when it was executed
    edits,         \* number of document edits made after the insertion
    executed,      \* the node lists inserted by the _execute calls, in order
    copy,          \* the operation clone() returned
    positions,     \* heap of position objects, and who refers to which
    json,          \* the serialized form of the operation
    rebuilt        \* the operation fromJSON() returned

convVars == <<view, listeners, stack, recs, ctx, consumable, result, passItem,
              log, lastFire, lastChildren, consumeLog, snapshot, writes, prev>>

\* What the operations made from the first one add to the state.
madeVars == <<copy, positions, json, rebuilt>>

opVars == <<mnodes, docRoot, version, op, rev, phase, threw, args, before,
            originals, edits, executed, madeVars>>

vars == <<convVars, opVars>>

Frame(k, node, data, ad, hs, h) ==
    [k |-> k, node |-> node, data |-> data, ad |-> ad, hs |-> hs, ran |-> <<>>,
     h |-> h, kids |-> <<>>, acc |-> <<>>, got |-> Undefined, pushed |-> FALSE]

Top == stack[Len(stack)]
Pop(s) == SubSeq(s, 1, Len(s) - 1)

NoFire == [node |-> 0, data |-> 0, ran |-> <<>>]
NoChildren == [parent |-> 0, converted |-> <<>>, returned |-> <<>>]
NotReturned == [done |-> FALSE, value |-> Undefined]

\* convert() was left by an error a handler raised.
Error == [t |-> "error", id |-> 0, ch |-> <<>>]
Raised == [done |-> FALSE, value |-> Error]

\* No earlier pass is kept.
NoPass == [kept |-> FALSE]

-----------------------------------------------------------------------------
(* EmitterMixin: on() appends a callback; fire( name ) calls, in            *)
(* registration order, the callbacks registered on the name or on a        *)
(* namespace of it ("element" for "element:p").                            *)

IsPrefix(p, e) == Len(p) <= Len(e) /\ SubSeq(e, 1, Len(p)) = p

RECURSIVE CallbacksFrom(_, _, _)
CallbacksFrom(ls, ev, i) ==
    IF i > Len(ls) THEN <<>>
    ELSE (IF IsPrefix(ls[i].pat, ev) THEN <<i>> ELSE <<>>) \o CallbacksFrom(ls, ev, i + 1)

Callbacks(ls, ev) == CallbacksFrom(ls, ev, 1)

RECURSIVE CallbacksAll(_, _)
\* The callbacks of several notifications fired one after the other.
CallbacksAll(ls, evs) ==
    IF evs = <<>> THEN <<>>
    ELSE Callbacks(ls, Head(evs)) \o CallbacksAll(ls, Tail(evs))

-----------------------------------------------------------------------------
(* ViewConversionDispatcher.                                               *)

CleanupEvent == <<"viewCleanup">>

\* A bug: convert() does not fire viewCleanup.
ConvertFires_none(viewItem) == <<>>

\* convert(): this.fire( 'viewCleanup', viewItem )
ConvertFires(viewItem) ==
    <<[ev |-> CleanupEvent, node |-> viewItem, data |-> 0, ad |-> 0]>>

\* A bug: `if` for `else if`, so an element falls through to the final else.
FiredBy_noElse(v, input) ==
    (IF v[input].kind = "element" THEN << <<"element", v[input].name>> >> ELSE <<>>)
        \o (IF v[input].kind = "text" THEN << <<"text">> >>
            ELSE << <<"documentFragment">> >>)

\* A bug: the element's name is left out of the event name.
FiredBy_bare(v, input) ==
    IF v[input].kind = "element" THEN << <<"element">> >>
    ELSE IF v[input].kind = "text" THEN << <<"text">> >>
    ELSE << <<"documentFragment">> >>

\* _convertItem(): the notifications fired for an input, by its kind.
FiredBy(v, input) ==
    IF v[input].kind = "element" THEN << <<"element", v[input].name>> >>
    ELSE IF v[input].kind = "text" THEN << <<"text">> >>
    ELSE << <<"documentFragment">> >>

\* A bug: a nested call gets a consumable created anew from its input.
PassedConsumable_fresh(cons, v, input) == cons \cup CreateFrom(v, input)

\* The consumable a nested _convertItem call receives: the one of the pass.
PassedConsumable(cons, v, input) == cons

\* _convertItem(): return data.output
ReturnOf(data) == data.output

RECURSIVE Reduce(_, _)
Reduce(a, converted) ==
    IF converted = <<>> THEN a
    ELSE Reduce(IF Truthy(Head(converted)) THEN Concat(a, Head(converted)) ELSE a,
                Tail(converted))

\* convertedChildren.reduce( ( a, b ) => b ? a.concat( b ) : a, [] )
Flatten(converted) == Reduce(<<>>, converted)

\* A bug: the children are converted from the last to the first.
ChildrenOf_reversed(v, input) ==
    [i \in 1..Len(v[input].kids) |-> v[input].kids[Len(v[input].kids) + 1 - i]]

\* _convertChildren(): Array.from( input.getChildren() ), in document order.
ChildrenOf(v, input) == v[input].kids

\* The object behind an additionalData argument: 0 is the default {}.
DataArg(adId) == IF adId = 0 THEN EmptyObj ELSE recs[adId]

\* The state a call _convertItem( input, consumable, additionalData ) leaves
\* when it has built its record and fired its notification: the heap, the
\* log and the frame waiting for the callbacks.
ItemRecs(rs, input, adId) ==
    Append(rs, ExtendData(IF adId = 0 THEN EmptyObj ELSE rs[adId], input))

ItemLog(input, dataId, adId) ==
    log \o [i \in 1..Len(FiredBy(view, input)) |->
                [ev |-> FiredBy(view, input)[i], node |-> input, data |-> dataId,
                 ad |-> adId]]

ItemFrame(input, dataId) ==
    Frame("item", input, dataId, 0, CallbacksAll(listeners, FiredBy(view, input)), 0)

\* on( name, callback )
On(reg) ==
    /\ stack = <<>>
    /\ Len(listeners) < MaxHandlers
    /\ listeners' = Append(listeners, reg)
    /\ lastFire' = NoFire
    /\ UNCHANGED <<view, stack, recs, ctx, consumable, result, passItem, log,
                   lastChildren, consumeLog, snapshot, writes>>
    /\ UNCHANGED <<prev, opVars>>

\* convert( viewItem, additionalData ) up to the firing of viewCleanup.
ConvertCall(viewItem, additionalData) ==
    /\ stack = <<>>
    /\ passItem' = viewItem
    /\ recs' = <<additionalData>>
    /\ ctx' = IF "context" \in additionalData.has THEN <<0>> ELSE <<>>
    /\ log' = ConvertFires(viewItem)
    /\ stack' = <<Frame("convert", viewItem, 0, 1,
                        CallbacksAll(listeners, [i \in 1..Len(ConvertFires(viewItem)) |->
                                                    ConvertFires(viewItem)[i].ev]), 0)>>
    /\ consumable' = {}
    /\ snapshot' = {}
    /\ consumeLog' = <<>>
    /\ writes' = {}
    /\ result' = NotReturned
    /\ lastFire' = NoFire
    /\ lastChildren' = NoChildren
    /\ UNCHANGED <<view, listeners>>
    /\ UNCHANGED opVars

\* A caller calls convert().
Convert(viewItem, additionalData) ==
    /\ ConvertCall(viewItem, additionalData)
    /\ UNCHANGED prev

\* The notifications of a pass: event name and item, in order.
Fired(l) == [i \in 1..Len(l) |-> [ev |-> l[i].ev, node |-> l[i].node]]

\* The caller of a pass that returned calls convert() again with the same
\* arguments, no handler having been registered since; the pass that ended
\* is kept for comparison.
ConvertAgain ==
    /\ result.done
    /\ lastFire.data = 2
    /\ prev' = [kept |-> TRUE, listeners |-> listeners, view |-> view,
                item |-> passItem, fired |-> Fired(log), value |-> result.value,
                left |-> consumable, consumed |-> snapshot \ consumable]
    /\ ConvertCall(passItem, recs[1])

\* A viewCleanup callback runs: it may drop a trailing empty element.
CleanupHandler ==
    /\ stack # <<>> /\ Top.k = "convert" /\ Top.hs # <<>>
    /\ LET f == Top
           b == listeners[Head(f.hs)].beh
           kids == view[f.node].kids
           last == kids[Len(kids)]
       IN /\ view' = IF b.prune /\ kids # <<>> /\ view[last].kind = "element"
                         /\ view[last].kids = <<>>
                      THEN [view EXCEPT ![f.node].kids = SubSeq(kids, 1, Len(kids) - 1)]
                      ELSE view
          /\ stack' = Append(Pop(stack), [f EXCEPT !.hs = Tail(f.hs),
                                                    !.ran = Append(f.ran, Head(f.hs))])
    /\ UNCHANGED <<listeners, recs, ctx, consumable, result, passItem, log,
                   lastFire, lastChildren, consumeLog, snapshot, writes>>
    /\ UNCHANGED <<prev, opVars>>

\* A bug: the tracker of the pass before is used again.
NewConsumable_kept(last, v, viewItem) ==
    IF last.kept THEN last.left ELSE CreateFrom(v, viewItem)

\* convert(): const consumable = ViewConsumable.createFrom( viewItem ),
\* whatever an earlier pass left.
NewConsumable(last, v, viewItem) == CreateFrom(v, viewItem)

\* convert() after viewCleanup: ViewConsumable.createFrom( viewItem ), then
\* _convertItem( viewItem, consumable, additionalData ).
ConvertItemRoot ==
    /\ stack # <<>> /\ Top.k = "convert" /\ Top.hs = <<>>
    /\ LET f == Top IN
          /\ consumable' = NewConsumable(prev, view, f.node)
          /\ snapshot' = NewConsumable(prev, view, f.node)
          /\ recs' = ItemRecs(recs, f.node, f.ad)
          /\ log' = ItemLog(f.node, Len(recs) + 1, f.ad)
          /\ stack' = Append(stack, ItemFrame(f.node, Len(recs) + 1))
    /\ UNCHANGED <<view, listeners, ctx, result, passItem, lastFire, lastChildren,
                   consumeLog, writes>>
    /\ UNCHANGED <<prev, opVars>>

\* What a handler decides when it starts: the result of its consume call and
\* whether its body acts.
Wants(b) == b.consume # {}
ConsumeOk(b, n) == Wants(b) /\ Test(consumable, n, b.consume)
Acts(b, n) ==
    CASE b.cond = "ifConsumed" -> ConsumeOk(b, n)
      [] b.cond = "ifNotConsumed" -> ~ConsumeOk(b, n)
      [] OTHER -> TRUE
Recurses(b, n) ==
    /\ Acts(b, n)
    /\ b.recurse # "no"
    /\ b.recurse = "item" => view[n].kids # <<>>

AfterConsume(b, n) == IF Wants(b) THEN Consume(consumable, n, b.consume) ELSE consumable
ConsumeLogged(b, n) ==
    IF Wants(b)
    THEN Append(consumeLog, [node |-> n, facets |-> b.consume, ok |-> ConsumeOk(b, n)])
    ELSE consumeLog

\* The handler body raises an error.
Throws(b, n) == Acts(b, n) /\ b.write = "throw"

\* data.output = value
WriteOutput(rs, dataId, value) ==
    [rs EXCEPT ![dataId] = Extend(rs[dataId], Obj({"output"}, 0, value, 0))]

\* The output a handler body writes, given the converted children it holds.
Written(b, n, children) ==
    CASE b.write = "node" -> MNode(n, children)
      [] b.write = "children" -> MSeq(children)
      [] OTHER -> False

\* The next callback of the notification runs from start to end without
\* calling back into the dispatcher.
HandlerRuns ==
    /\ stack # <<>> /\ Top.k = "item" /\ Top.hs # <<>>
    /\ LET f == Top
           h == Head(f.hs)
           b == listeners[h].beh
           n == recs[f.data].input
           writing == Acts(b, n) /\ b.write # "none"
       IN /\ ~Recurses(b, n)
          /\ ~Throws(b, n)
          /\ consumable' = AfterConsume(b, n)
          /\ consumeLog' = ConsumeLogged(b, n)
          /\ recs' = IF writing
                     THEN WriteOutput(recs, f.data, Written(b, n, <<>>))
                     ELSE recs
          /\ writes' = IF writing THEN writes \cup {f.data} ELSE writes
          /\ stack' = Append(Pop(stack), [f EXCEPT !.hs = Tail(f.hs), !.ran = Append(f.ran, h)])
    /\ UNCHANGED <<view, listeners, ctx, result, passItem, log, lastFire,
                   lastChildren, snapshot>>
    /\ UNCHANGED <<prev, opVars>>

\* A bug: _convertItem catches the error and goes on.
Unwind_caught(s) == Pop(s)

\* No try / catch in fire, _convertItem, _convertChildren and convert: an
\* error leaves every call of the pass.
Unwind(s) == <<>>

\* The next callback consumes and then raises an error, which reaches the
\* caller of convert().
HandlerThrows ==
    /\ stack # <<>> /\ Top.k = "item" /\ Top.hs # <<>>
    /\ LET f == Top
           b == listeners[Head(f.hs)].beh
           n == recs[f.data].input
       IN /\ Throws(b, n)
          /\ consumable' = AfterConsume(b, n)
          /\ consumeLog' = ConsumeLogged(b, n)
    /\ stack' = Unwind(stack)
    /\ result' = Raised
    /\ UNCHANGED <<view, listeners, recs, ctx, passItem, log, lastFire,
                   lastChildren, snapshot, writes>>
    /\ UNCHANGED <<prev, opVars>>

\* The next callback runs up to its call conversionApi.convertChildren(
\* data.input, consumable, data ), which snapshots the children.
HandlerCallsConvertChildren ==
    /\ stack # <<>> /\ Top.k = "item" /\ Top.hs # <<>>
    /\ LET f == Top
           h == Head(f.hs)
           b == listeners[h].beh
           n == recs[f.data].input
           doPush == b.push /\ "context" \in recs[f.data].has
       IN /\ Recurses(b, n) /\ b.recurse = "children"
          /\ consumable' = AfterConsume(b, n)
          /\ consumeLog' = ConsumeLogged(b, n)
          /\ ctx' = IF doPush THEN Append(ctx, n) ELSE ctx
          /\ stack' = Pop(stack) \o
                <<[f EXCEPT !.hs = Tail(f.hs)],
                  [Frame("handler", n, f.data, 0, <<>>, h) EXCEPT !.pushed = doPush],
                  [Frame("children", n, 0, IF b.ad = "data" THEN f.data ELSE 0, <<>>, 0)
                       EXCEPT !.kids = ChildrenOf(view, n)]>>
    /\ UNCHANGED <<view, listeners, recs, result, passItem, log, lastFire,
                   lastChildren, snapshot, writes>>
    /\ UNCHANGED <<prev, opVars>>

\* The next callback runs up to its call conversionApi.convertItem( child,
\* consumable, data ) for its first child.
HandlerCallsConvertItem ==
    /\ stack # <<>> /\ Top.k = "item" /\ Top.hs # <<>>
    /\ LET f == Top
           h == Head(f.hs)
           b == listeners[h].beh
           n == recs[f.data].input
           child == Head(view[n].kids)
       IN /\ Recurses(b, n) /\ b.recurse = "item"
          /\ consumable' = PassedConsumable(AfterConsume(b, n), view, child)
          /\ consumeLog' = ConsumeLogged(b, n)
          /\ recs' = ItemRecs(recs, child, IF b.ad = "data" THEN f.data ELSE 0)
          /\ log' = ItemLog(child, Len(recs) + 1, IF b.ad = "data" THEN f.data ELSE 0)
          /\ stack' = Pop(stack) \o
                <<[f EXCEPT !.hs = Tail(f.hs)],
                  Frame("handler", n, f.data, 0, <<>>, h),
                  ItemFrame(child, Len(recs) + 1)>>
    /\ UNCHANGED <<view, listeners, ctx, result, passItem, lastFire, lastChildren,
                   snapshot, writes>>
    /\ UNCHANGED <<prev, opVars>>

\* _convertChildren(): the map callback converts the next child.
ChildrenNext ==
    /\ stack # <<>> /\ Top.k = "children" /\ Len(Top.acc) < Len(Top.kids)
    /\ LET f == Top
           child == f.kids[Len(f.acc) + 1]
       IN /\ consumable' = PassedConsumable(consumable, view, child)
          /\ recs' = ItemRecs(recs, child, f.ad)
          /\ log' = ItemLog(child, Len(recs) + 1, f.ad)
          /\ stack' = Append(stack, ItemFrame(child, Len(recs) + 1))
    /\ UNCHANGED <<view, listeners, ctx, result, passItem, lastFire, lastChildren,
                   consumeLog, snapshot, writes>>
    /\ UNCHANGED <<prev, opVars>>

\* _convertItem() returns data.output to the _convertChildren or the handler
\* that called it.
ItemReturns ==
    /\ Len(stack) > 1 /\ Top.k = "item" /\ Top.hs = <<>>
    /\ stack[Len(stack) - 1].k # "convert"
    /\ LET f == Top
           caller == stack[Len(stack) - 1]
           out == ReturnOf(recs[f.data])
       IN /\ lastFire' = [node |-> f.node, data |-> f.data, ran |-> f.ran]
          /\ stack' = Append(Pop(Pop(stack)),
                             IF caller.k = "children"
                             THEN [caller EXCEPT !.acc = Append(caller.acc, out)]
                             ELSE [caller EXCEPT !.got = out])
    /\ UNCHANGED <<view, listeners, recs, ctx, consumable, result, passItem, log,
                   lastChildren, consumeLog, snapshot, writes>>
    /\ UNCHANGED <<prev, opVars>>

\* The _convertItem() called by convert() returns, and convert() with it.
ConvertReturns ==
    /\ Len(stack) > 1 /\ Top.k = "item" /\ Top.hs = <<>>
    /\ stack[Len(stack) - 1].k = "convert"
    /\ lastFire' = [node |-> Top.node, data |-> Top.data, ran |-> Top.ran]
    /\ result' = [done |-> TRUE, value |-> ReturnOf(recs[Top.data])]
    /\ stack' = <<>>
    /\ UNCHANGED <<view, listeners, recs, ctx, consumable, passItem, log,
                   lastChildren, consumeLog, snapshot, writes>>
    /\ UNCHANGED <<prev, opVars>>

\* _convertChildren() flattens the converted children and returns.
ChildrenReturn ==
    /\ Len(stack) > 1 /\ Top.k = "children" /\ Len(Top.acc) = Len(Top.kids)
    /\ LET f == Top
           caller == stack[Len(stack) - 1]
       IN /\ lastChildren' = [parent |-> f.node, converted |-> f.acc,
                              returned |-> Flatten(f.acc)]
          /\ stack' = Append(Pop(Pop(stack)), [caller EXCEPT !.got = MSeq(Flatten(f.acc))])
    /\ UNCHANGED <<view, listeners, recs, ctx, consumable, result, passItem, log,
                   lastFire, consumeLog, snapshot, writes>>
    /\ UNCHANGED <<prev, opVars>>

\* The handler that called convertChildren or convertItem runs to its end:
\* it pops the context it pushed and writes its output.
HandlerResumes ==
    /\ Len(stack) > 1 /\ Top.k = "handler"
    /\ LET f == Top
           item == stack[Len(stack) - 1]
           b == listeners[f.h].beh
           children == IF Truthy(f.got) THEN Concat(<<>>, f.got) ELSE <<>>
       IN /\ ctx' = IF f.pushed THEN Pop(ctx) ELSE ctx
          /\ recs' = IF b.write # "none"
                     THEN WriteOutput(recs, f.data, Written(b, f.node, children))
                     ELSE recs
          /\ writes' = IF b.write # "none" THEN writes \cup {f.data} ELSE writes
          /\ stack' = Append(Pop(Pop(stack)), [item EXCEPT !.ran = Append(item.ran, f.h)])
    /\ UNCHANGED <<view, listeners, consumable, result, passItem, log, lastFire,
                   lastChildren, consumeLog, snapshot>>
    /\ UNCHANGED <<prev, opVars>>

-----------------------------------------------------------------------------
(* The model tree. Nodes live in a heap (a sequence; a node's identity is  *)
(* its index): a text node holds its characters, an element its name and   *)
(* the ids of its children. The document is the child list of its root.    *)

TextSpec(data) == [kind |-> "text", name |-> "", data |-> data, ch |-> <<>>]
ElementSpec(name, ch) == [kind |-> "element", name |-> name, data |-> <<>>, ch |-> ch]

RECURSIVE Alloc(_, _), AllocList(_, _)
\* Builds the node a description stands for, children first:
\* [heap, id] with the new heap and the id of the node.
Alloc(heap, spec) ==
    LET kids == AllocList(heap, spec.ch)
    IN [heap |-> Append(kids.heap, [spec EXCEPT !.ch = kids.ids]),
        id |-> Len(kids.heap) + 1]

AllocList(heap, specs) ==
    IF specs = <<>> THEN [heap |-> heap, ids |-> <<>>]
    ELSE LET first == Alloc(heap, Head(specs))
             rest == AllocList(first.heap, Tail(specs))
         IN [heap |-> rest.heap, ids |-> <<first.id>> \o rest.ids]

RECURSIVE SpecOf(_, _)
\* The content of a node: its kind, name, text and the content of its children.
SpecOf(heap, id) ==
    [heap[id] EXCEPT !.ch = [i \in 1..Len(heap[id].ch) |-> SpecOf(heap, heap[id].ch[i])]]

SpecsOf(heap, ids) == [i \in 1..Len(ids) |-> SpecOf(heap, ids[i])]

RECURSIVE Descendants(_, _)
\* The ids of the nodes of a list and of everything below them.
Descendants(heap, ids) ==
    IF ids = <<>> THEN {}
    ELSE {Head(ids)} \cup Descendants(heap, heap[Head(ids)].ch)
            \cup Descendants(heap, Tail(ids))

\* node.offsetSize: the length of a text node, 1 for an element.
OffsetSize(heap, id) == IF heap[id].kind = "text" THEN Len(heap[id].data) ELSE 1

RECURSIVE MaxOffset(_, _)
\* nodeList.maxOffset: the sum of the offset sizes of the nodes.
MaxOffset(heap, ids) ==
    IF ids = <<>> THEN 0
    ELSE OffsetSize(heap, Head(ids)) + MaxOffset(heap, Tail(ids))

RECURSIVE Units(_, _)
\* The content of a child list by offset: one unit per character, one per
\* element (with the content below it).
Units(heap, ids) ==
    IF ids = <<>> THEN <<>>
    ELSE LET n == heap[Head(ids)]
         IN (IF n.kind = "text"
             THEN [i \in 1..Len(n.data) |-> [c |-> n.data[i], sub |-> <<>>]]
             ELSE <<[c |-> n.name, sub |-> Units(heap, n.ch)]>>)
            \o Units(heap, Tail(ids))

RECURSIVE CloneList(_, _)
\* [ ...nodes ].map( ( node ) => node.clone( true ) ): deep copies, new objects.
CloneList(heap, ids) ==
    IF ids = <<>> THEN [heap |-> heap, ids |-> <<>>]
    ELSE LET first == Alloc(heap, SpecOf(heap, Head(ids)))
             rest == CloneList(first.heap, Tail(ids))
         IN [heap |-> rest.heap, ids |-> <<first.id>> \o rest.ids]

-----------------------------------------------------------------------------
(* writer.insert and the removal of a span, on the root's child list.      *)

RECURSIVE SplitFrom(_, _, _, _)
\* Splits the text node the offset falls into, if any: the node keeps its
\* first characters and a new node takes the rest. index is the number of
\* nodes before the offset.
SplitFrom(heap, kids, i, off) ==
    IF off = 0 \/ i > Len(kids) THEN [heap |-> heap, kids |-> kids, index |-> i - 1]
    ELSE LET sz == OffsetSize(heap, kids[i])
             data == heap[kids[i]].data
         IN IF off >= sz THEN SplitFrom(heap, kids, i + 1, off - sz)
            ELSE [heap |-> Append([heap EXCEPT ![kids[i]].data = SubSeq(data, 1, off)],
                                  TextSpec(SubSeq(data, off + 1, sz))),
                  kids |-> SubSeq(kids, 1, i) \o <<Len(heap) + 1>>
                              \o SubSeq(kids, i + 1, Len(kids)),
                  index |-> i]

SplitAt(heap, kids, off) == SplitFrom(heap, kids, 1, off)

RECURSIVE MergeFrom(_, _, _)
\* Merges adjacent text nodes: the first takes the characters of the second,
\* which leaves the tree.
MergeFrom(heap, kids, i) ==
    IF i >= Len(kids) THEN [heap |-> heap, kids |-> kids]
    ELSE IF heap[kids[i]].kind = "text" /\ heap[kids[i + 1]].kind = "text"
         THEN MergeFrom([heap EXCEPT ![kids[i]].data = @ \o heap[kids[i + 1]].data],
                        SubSeq(kids, 1, i) \o SubSeq(kids, i + 2, Len(kids)), i)
         ELSE MergeFrom(heap, kids, i + 1)

\* writer.insert( position, nodes ): split at the position, insert the node
\* objects, merge the text nodes that touch.
WriterInsert(heap, kids, off, ids) ==
    LET s == SplitAt(heap, kids, off)
    IN MergeFrom(s.heap,
                 SubSeq(s.kids, 1, s.index) \o ids \o SubSeq(s.kids, s.index + 1, Len(s.kids)),
                 1)

\* Removal of howMany offsets from the position on.
WriterRemove(heap, kids, off, howMany) ==
    LET a == SplitAt(heap, kids, off)
        b == SplitAt(a.heap, a.kids, off + howMany)
    IN MergeFrom(b.heap,
                 SubSeq(b.kids, 1, a.index) \o SubSeq(b.kids, b.index + 1, Len(b.kids)),
                 1)

-----------------------------------------------------------------------------
(* InsertOperation.                                                        *)

\* Most document edits made after the insertion.
MaxEdits == 2

Position(off) == [root |-> "main", path |-> <<off>>]

\* Position.createFromPosition( position ): a copy by value.
CreateFromPosition(position) == [root |-> position.root, path |-> position.path]

\* The `nodes` argument of the constructor: a list of nodes, one node or a
\* string.
NodeList(items) == [form |-> "list", items |-> items, chars |-> <<>>]
OneNode(item) == [form |-> "node", items |-> <<item>>, chars |-> <<>>]
String(chars) == [form |-> "string", items |-> <<>>, chars |-> chars]

\* normalizeNodes( nodes ): the canonical list; a string becomes a text node.
NormalizeNodes(nodes) ==
    IF nodes.form = "string" THEN <<TextSpec(nodes.chars)>> ELSE nodes.items

NodeArgs ==
    { NodeList(<<TextSpec(<<"a", "b">>), ElementSpec("x", <<>>)>>),
      NodeList(<<ElementSpec("x", <<TextSpec(<<"c">>)>>), TextSpec(<<"a">>)>>),
      NodeList(<<ElementSpec("x", <<ElementSpec("y", <<>>)>>)>>),
      OneNode(TextSpec(<<"a">>)),
      String(<<"a", "b">>) }

DocChoices ==
    { <<>>,
      <<TextSpec(<<"x", "y">>)>>,
      <<TextSpec(<<"x">>), ElementSpec("e", <<>>), TextSpec(<<"y">>)>> }

Versions == {0, 5}

\* Nothing serialized yet.
NoJson == [className |-> "", baseVersion |-> -1, position |-> Position(0), nodes |-> <<>>]

\* The operations serialized: the node lists above, and a text next to an
\* element whose name is the empty string.
JsonNodeArgs ==
    NodeArgs \cup { NodeList(<<TextSpec(<<"a">>), ElementSpec("", <<TextSpec(<<"c">>)>>)>>) }

\* new InsertOperation( position, nodes, baseVersion ), the nodes being
\* objects of the heap.
InsertOperation(position, ids, baseVersion) ==
    [position |-> CreateFromPosition(position), nodes |-> ids, baseVersion |-> baseVersion]

NoOperation == [position |-> Position(0), howMany |-> 0, baseVersion |-> 0]

\* No clone and no rebuilt operation yet.
NoInsert == [position |-> Position(0), nodes |-> <<>>, baseVersion |-> -1]

\* A bug: the constructor keeps the position object it was given.
OwnPosition_alias(objs, given) == [objs |-> objs, id |-> given]

\* constructor: this.position = Position.createFromPosition( position ), a
\* new position object next to the caller's.
OwnPosition(objs, given) ==
    [objs |-> Append(objs, CreateFromPosition(objs[given])), id |-> Len(objs) + 1]

\* The position an operation reads through its reference.
PositionOf(id) == positions.objs[id]

\* A bug: clone() hands the node objects of the original to the new operation.
CloneNodes_shared(heap, nodes) == [heap |-> heap, ids |-> nodes]

\* clone(): new NodeList( [ ...this.nodes ].map( ( node ) => node.clone( true ) ) )
CloneNodes(heap, nodes) == CloneList(heap, nodes)

\* A bug: the number of nodes for their total offset size.
GetReversed_length(heap, o) ==
    [position |-> o.position, howMany |-> Len(o.nodes), baseVersion |-> o.baseVersion + 1]

\* A bug: the reversed operation keeps the base version.
GetReversed_sameVersion(heap, o) ==
    [position |-> o.position, howMany |-> MaxOffset(heap, o.nodes),
     baseVersion |-> o.baseVersion]

\* getReversed(): new RemoveOperation( this.position, this.nodes.maxOffset,
\* this.baseVersion + 1 )
GetReversed(heap, o) ==
    [position |-> o.position, howMany |-> MaxOffset(heap, o.nodes),
     baseVersion |-> o.baseVersion + 1]

\* A bug: _execute keeps the node objects it inserts.
ExecuteNodes_noClone(heap, originalNodes) == [heap |-> heap, ids |-> originalNodes]

\* _execute(): this.nodes = new NodeList( [ ...originalNodes ].map( clone ) )
ExecuteNodes(heap, originalNodes) == CloneList(heap, originalNodes)

\* _execute(): the clones are taken, then writer.insert( this.position,
\* originalNodes ) puts the original objects into the tree.
Execute(heap, kids, o) ==
    LET cloned == ExecuteNodes(heap, o.nodes)
        written == WriterInsert(cloned.heap, kids, o.position.path[1], o.nodes)
    IN [heap |-> written.heap, kids |-> written.kids, nodes |-> cloned.ids]

\* getReversed() is called.
CallGetReversed ==
    /\ rev' = GetReversed(mnodes, op)
    /\ rev' # rev
    /\ UNCHANGED <<mnodes, docRoot, version, op, phase, threw, args, before,
                   originals, edits>>
    /\ UNCHANGED <<executed, madeVars, convVars>>

\* clone(): new InsertOperation( this.position, nodes, this.baseVersion ).
CallClone ==
    /\ copy = NoInsert
    /\ LET cloned == CloneNodes(mnodes, op.nodes)
           own == OwnPosition(positions.objs, positions.op)
       IN /\ mnodes' = cloned.heap
          /\ positions' = [positions EXCEPT !.objs = own.objs, !.copy = own.id]
          /\ copy' = InsertOperation(own.objs[own.id], cloned.ids, op.baseVersion)
    /\ UNCHANGED <<docRoot, version, op, rev, phase, threw, args, before,
                   originals, edits, executed, json, rebuilt>>
    /\ UNCHANGED convVars

\* A serialized node is an object with the fields in `has`: a text has
\* data, an element has name and children.
JText(data) == [has |-> {"data"}, name |-> "", data |-> data, children |-> <<>>]
JElement(name, children) ==
    [has |-> {"name", "children"}, name |-> name, data |-> <<>>, children |-> children]

RECURSIVE NodeToJSON(_)
\* node.toJSON()
NodeToJSON(spec) ==
    IF spec.kind = "text" THEN JText(spec.data)
    ELSE JElement(spec.name, [i \in 1..Len(spec.ch) |-> NodeToJSON(spec.ch[i])])

\* get className()
ClassName == "engine.model.operation.InsertOperation"

\* operation.toJSON(): the class name and the fields, serialized.
ToJSON(heap, o) ==
    [className |-> ClassName,
     baseVersion |-> o.baseVersion,
     position |-> [root |-> o.position.root, path |-> o.position.path],
     nodes |-> [i \in 1..Len(o.nodes) |-> NodeToJSON(SpecOf(heap, o.nodes[i]))]]

RECURSIVE ElementFromJSON(_)
\* Element.fromJSON( json ): the element and, below it, what its children
\* were serialized from.
ElementFromJSON(j) ==
    ElementSpec(j.name,
                [i \in 1..Len(j.children) |->
                    IF "name" \in j.children[i].has
                    THEN ElementFromJSON(j.children[i])
                    ELSE TextSpec(j.children[i].data)])

\* Text.fromJSON( json ): new Text( json.data ), the empty text when the
\* record has no data.
TextFromJSON(j) == TextSpec(IF "data" \in j.has THEN j.data ELSE <<>>)

\* fromJSON: if ( child.name ), the truthiness of the field: undefined and
\* the empty string are falsy.
HasName(child) == "name" \in child.has /\ child.name # ""

\* fromJSON: the body of the loop over json.nodes.
DecodeChild(child) ==
    IF HasName(child) THEN ElementFromJSON(child) ELSE TextFromJSON(child)

\* fromJSON: for ( let child of json.nodes ) children.push( ... )
DecodeNodes(nodes) == [i \in 1..Len(nodes) |-> DecodeChild(nodes[i])]

\* Position.fromJSON( json.position, document )
PositionFromJSON(j) == [root |-> j.root, path |-> j.path]

\* The operation is serialized.
CallToJSON ==
    /\ json = NoJson
    /\ json' = ToJSON(mnodes, op)
    /\ UNCHANGED <<mnodes, docRoot, version, op, rev, phase, threw, args, before,
                   originals, edits, executed, copy, positions, rebuilt>>
    /\ UNCHANGED convVars

\* InsertOperation.fromJSON( json, document ): new InsertOperation(
\* Position.fromJSON( json.position, document ), children, json.baseVersion )
CallFromJSON ==
    /\ json # NoJson
    /\ rebuilt = NoInsert
    /\ LET children == AllocList(mnodes, NormalizeNodes(NodeList(DecodeNodes(json.nodes))))
       IN /\ mnodes' = children.heap
          /\ rebuilt' = InsertOperation(PositionFromJSON(json.position), children.ids,
                                        json.baseVersion)
    /\ UNCHANGED <<docRoot, version, op, rev, phase, threw, args, before,
                   originals, edits, executed, copy, positions, json>>
    /\ UNCHANGED convVars

\* document.applyOperation( op ): the version check, _execute, version++.
ApplyInsert ==
    /\ phase = "new"
    /\ op.baseVersion = version
    /\ LET done == Execute(mnodes, docRoot, op)
       IN /\ mnodes' = done.heap
          /\ docRoot' = done.kids
          /\ op' = [op EXCEPT !.nodes = done.nodes]
    /\ originals' = op.nodes
    /\ executed' = Append(executed, op.nodes)
    /\ version' = version + 1
    /\ phase' = "inserted"
    /\ UNCHANGED <<rev, threw, args, before, edits>>
    /\ UNCHANGED <<madeVars, convVars>>

\* document.applyOperation( op.getReversed() ) right after the insertion:
\* it throws on a wrong base version or a span outside the root.
ApplyReversed ==
    /\ phase = "inserted"
    /\ LET r == GetReversed(mnodes, op)
           fits == /\ r.baseVersion = version
                   /\ r.position.path[1] + r.howMany <= MaxOffset(mnodes, docRoot)
           done == WriterRemove(mnodes, docRoot, r.position.path[1], r.howMany)
       IN /\ rev' = r
          /\ threw' = ~fits
          /\ mnodes' = IF fits THEN done.heap ELSE mnodes
          /\ docRoot' = IF fits THEN done.kids ELSE docRoot
          /\ version' = IF fits THEN version + 1 ELSE version
    /\ phase' = "reverted"
    /\ UNCHANGED <<op, args, before, originals, edits>>
    /\ UNCHANGED <<executed, madeVars, convVars>>

CanEdit == phase \in {"inserted", "edited"} /\ edits < MaxEdits

\* op._execute() is called once more, as a replay of the history does.
ExecuteAgain ==
    /\ CanEdit
    /\ op.position.path[1] <= MaxOffset(mnodes, docRoot)
    /\ LET done == Execute(mnodes, docRoot, op)
       IN /\ mnodes' = done.heap
          /\ docRoot' = done.kids
          /\ op' = [op EXCEPT !.nodes = done.nodes]
    /\ executed' = Append(executed, op.nodes)
    /\ phase' = "edited"
    /\ edits' = edits + 1
    /\ UNCHANGED <<version, rev, threw, args, before, originals, madeVars>>
    /\ UNCHANGED convVars

\* The clone is executed: its node objects go into the document.
ExecuteClone ==
    /\ copy # NoInsert
    /\ edits < MaxEdits
    /\ copy.position.path[1] <= MaxOffset(mnodes, docRoot)
    /\ LET done == Execute(mnodes, docRoot, copy)
       IN /\ mnodes' = done.heap
          /\ docRoot' = done.kids
          /\ copy' = [copy EXCEPT !.nodes = done.nodes]
    /\ edits' = edits + 1
    /\ UNCHANGED <<version, op, rev, phase, threw, args, before, originals,
                   executed, positions, json, rebuilt>>
    /\ UNCHANGED convVars

\* The offsets the caller moves its position object to.
MovedOffsets == {0, 1}

\* The caller changes the position object it passed to the constructor:
\* every operation that refers to this object sees the change.
MutateCallerPosition(off) ==
    /\ PositionOf(positions.caller) = args.position
    /\ Position(off) # args.position
    /\ LET objs == [positions.objs EXCEPT ![positions.caller] = Position(off)]
       IN /\ positions' = [positions EXCEPT !.objs = objs]
          /\ op' = [op EXCEPT !.position = objs[positions.op]]
          /\ copy' = IF copy = NoInsert THEN copy
                     ELSE [copy EXCEPT !.position = objs[positions.copy]]
    /\ UNCHANGED <<mnodes, docRoot, version, rev, phase, threw, args, before,
                   originals, edits, executed, json, rebuilt>>
    /\ UNCHANGED convVars

\* A later edit: a text node is appended to an element of the document.
DocAppendChild(i) ==
    /\ CanEdit
    /\ mnodes[docRoot[i]].kind = "element"
    /\ LET e == docRoot[i]
           made == Alloc(mnodes, TextSpec(<<"z">>))
           ch == mnodes[e].ch
           done == WriterInsert(made.heap, ch, MaxOffset(mnodes, ch), <<made.id>>)
       IN mnodes' = [done.heap EXCEPT ![e].ch = done.kids]
    /\ version' = version + 1
    /\ phase' = "edited"
    /\ edits' = edits + 1
    /\ UNCHANGED <<docRoot, op, rev, threw, args, before, originals>>
    /\ UNCHANGED <<executed, madeVars, convVars>>

\* A later edit: a character is typed at an offset of the root.
DocInsertText(off) ==
    /\ CanEdit
    /\ LET made == Alloc(mnodes, TextSpec(<<"z">>))
           done == WriterInsert(made.heap, docRoot, off, <<made.id>>)
       IN /\ mnodes' = done.heap
          /\ docRoot' = done.kids
    /\ version' = version + 1
    /\ phase' = "edited"
    /\ edits' = edits + 1
    /\ UNCHANGED <<op, rev, threw, args, before, originals>>
    /\ UNCHANGED <<executed, madeVars, convVars>>

\* A later edit: one offset of the root is removed.
DocRemove(off) ==
    /\ CanEdit
    /\ off < MaxOffset(mnodes, docRoot)
    /\ LET done == WriterRemove(mnodes, docRoot, off, 1)
       IN /\ mnodes' = done.heap
          /\ docRoot' = done.kids
    /\ version' = version + 1
    /\ phase' = "edited"
    /\ edits' = edits + 1
    /\ UNCHANGED <<op, rev, threw, args, before, originals>>
    /\ UNCHANGED <<executed, madeVars, convVars>>

-----------------------------------------------------------------------------
(* Specifications: Spec runs the dispatcher, SpecOp the insert operation.  *)

ConvInit ==
    /\ listeners = <<>>
    /\ stack = <<>>
    /\ recs = <<>>
    /\ ctx = <<>>
    /\ consumable = {}
    /\ result = NotReturned
    /\ passItem = 0
    /\ log = <<>>
    /\ lastFire = NoFire
    /\ lastChildren = NoChildren
    /\ consumeLog = <<>>
    /\ snapshot = {}
    /\ writes = {}
    /\ prev = NoPass

\* An operation constructed for a document, not yet applied.
Constructed(docSpec, off, nodes, baseVersion) ==
    LET doc == AllocList(<<>>, docSpec)
        given == AllocList(doc.heap, NormalizeNodes(nodes))
        own == OwnPosition(<<Position(off)>>, 1)
    IN /\ mnodes = given.heap
       /\ docRoot = doc.ids
       /\ version = baseVersion
       /\ positions = [objs |-> own.objs, caller |-> 1, op |-> own.id, copy |-> 0]
       /\ op = InsertOperation(own.objs[own.id], given.ids, baseVersion)
       /\ args = [position |-> Position(off), nodes |-> NormalizeNodes(nodes),
                  baseVersion |-> baseVersion]
       /\ before = [content |-> Units(doc.heap, doc.ids), version |-> baseVersion]
       /\ rev = NoOperation
       /\ phase = "new"
       /\ threw = FALSE
       /\ originals = <<>>
       /\ edits = 0
       /\ executed = <<>>
       /\ copy = NoInsert
       /\ json = NoJson
       /\ rebuilt = NoInsert

Init ==
    /\ view \in ViewTrees
    /\ ConvInit
    /\ Constructed(<<>>, 0, String(<<>>), 0)

Next ==
    \/ \E reg \in Registrations : On(reg)
    \/ \E viewItem \in ConvertItems, additionalData \in CallerData :
          Convert(viewItem, additionalData)
    \/ CleanupHandler
    \/ ConvertItemRoot
    \/ HandlerRuns
    \/ HandlerCallsConvertChildren
    \/ HandlerCallsConvertItem
    \/ ChildrenNext
    \/ ItemReturns
    \/ ConvertReturns
    \/ ChildrenReturn
    \/ HandlerResumes

Spec == Init /\ [][Next]_vars

TraverseInit ==
    /\ view \in TraverseTrees
    /\ ConvInit
    /\ Constructed(<<>>, 0, String(<<>>), 0)

\* A step of a running pass whose handlers recurse by convertChildren.
TraverseStep ==
    \/ CleanupHandler
    \/ ConvertItemRoot
    \/ HandlerRuns
    \/ HandlerCallsConvertChildren
    \/ ChildrenNext
    \/ ItemReturns
    \/ ConvertReturns
    \/ ChildrenReturn
    \/ HandlerResumes

TraverseNext ==
    \/ \E reg \in TraverseRegistrations : On(reg)
    \/ \E viewItem \in ConvertItems, additionalData \in CallerData :
          Convert(viewItem, additionalData)
    \/ TraverseStep

\* The dispatcher with converters that recurse by convertChildren. It is
\* synchronous: a pass that has a step to take takes it.
SpecTraverse == TraverseInit /\ [][TraverseNext]_vars /\ WF_vars(TraverseStep)

\* The dispatcher with the converters of the class documentation, called
\* again after a pass.
DocNext ==
    \/ \E reg \in DocRegistrations : On(reg)
    \/ \E viewItem \in ConvertItems, additionalData \in CallerData :
          Convert(viewItem, additionalData)
    \/ ConvertAgain
    \/ CleanupHandler
    \/ ConvertItemRoot
    \/ HandlerRuns
    \/ HandlerCallsConvertChildren
    \/ HandlerThrows
    \/ ChildrenNext
    \/ ItemReturns
    \/ ConvertReturns
    \/ ChildrenReturn
    \/ HandlerResumes

SpecDoc == Init /\ [][DocNext]_vars

OpInit ==
    /\ view = TreeFragment
    /\ ConvInit
    /\ \E docSpec \in DocChoices, nodes \in NodeArgs, baseVersion \in Versions :
          \E off \in 0..Len(Units(AllocList(<<>>, docSpec).heap,
                                  AllocList(<<>>, docSpec).ids)) :
              Constructed(docSpec, off, nodes, baseVersion)

OpNext ==
    \/ CallGetReversed
    \/ ApplyInsert
    \/ ApplyReversed
    \/ \E i \in 1..Len(docRoot) : DocAppendChild(i)
    \/ \E off \in 0..MaxOffset(mnodes, docRoot) : DocInsertText(off)
    \/ \E off \in 0..MaxOffset(mnodes, docRoot) : DocRemove(off)

SpecOp == OpInit /\ [][OpNext]_vars

\* The operation and its serialized form.
JsonInit ==
    /\ view = TreeFragment
    /\ ConvInit
    /\ \E docSpec \in DocChoices, nodes \in JsonNodeArgs, baseVersion \in Versions :
          \E off \in 0..Len(Units(AllocList(<<>>, docSpec).heap,
                                  AllocList(<<>>, docSpec).ids)) :
              Constructed(docSpec, off, nodes, baseVersion)

JsonNext ==
    \/ ApplyInsert
    \/ CallToJSON
    \/ CallFromJSON

SpecJson == JsonInit /\ [][JsonNext]_vars

\* The operation, its clone and the caller's position object.
OwnNext ==
    \/ CallGetReversed
    \/ ApplyInsert
    \/ CallClone
    \/ ExecuteAgain
    \/ ExecuteClone
    \/ \E off \in MovedOffsets : MutateCallerPosition(off)
    \/ \E i \in 1..Len(docRoot) : DocAppendChild(i)

SpecOwn == OpInit /\ [][OwnNext]_vars

-----------------------------------------------------------------------------
(* Properties.                                                             *)

InPass == stack # <<>> \/ result.done

\* C1: within one convert(viewItem) call viewCleanup fires exactly once, with
\* the raw viewItem, before every element:<name>, text and documentFragment
\* notification; nested convertItem and convertChildren calls fire none.
CleanupFirstOnce ==
    InPass =>
        /\ log # <<>>
        /\ log[1] = [ev |-> CleanupEvent, node |-> passItem, data |-> 0, ad |-> 0]
        /\ \A i \in 2..Len(log) :
              /\ log[i].ev # CleanupEvent
              /\ log[i].ev[1] \in {"element", "text", "documentFragment"}

\* A pass that ended after a handler called convertChildren and a handler
\* called convertItem.
CleanupFirstOnceWitness ==
    /\ result.done
    /\ lastChildren.parent # 0
    /\ \E h \in 1..Len(listeners) : listeners[h].beh.recurse = "item"
    /\ Len(log) >= 5

\* The notification the spec names for a view item.
NotificationOf(n) ==
    CASE view[n].kind = "element" -> <<"element", view[n].name>>
      [] view[n].kind = "text" -> <<"text">>
      [] OTHER -> <<"documentFragment">>

\* C2: every convertItem call fires exactly one notification, chosen by the
\* kind of its item: each record built by a call has one log entry, and it
\* is element:<name>, text or documentFragment as the item is an element, a
\* text node or anything else.
OneNotificationPerItem ==
    /\ Len(log) = Len(recs)
    /\ \A i \in 2..Len(log) :
          /\ log[i].data = i
          /\ log[i].node = recs[i].input
          /\ log[i].ev = NotificationOf(log[i].node)

\* A finished pass that fired element, text and documentFragment notifications.
OneNotificationPerItemWitness ==
    /\ result.done
    /\ \A k \in {"element", "text", "documentFragment"} :
          \E i \in 2..Len(log) : log[i].ev[1] = k

\* What the claim lets one converted child contribute to the result.
Contribution(v) ==
    IF v.t \in {"null", "undefined"} THEN <<>>
    ELSE IF v.t = "seq" THEN v.ch ELSE <<v>>

RECURSIVE ConcatAll(_)
ConcatAll(converted) ==
    IF converted = <<>> THEN <<>>
    ELSE Contribution(Head(converted)) \o ConcatAll(Tail(converted))

\* C3: convertChildren returns the concatenation, in document order, of the
\* children's outputs; a null or absent output contributes nothing, a
\* sequence contributes its members, and no non-null output is dropped.
ChildrenConcatNonNull ==
    lastChildren.returned = ConcatAll(lastChildren.converted)

\* The same with every falsy output contributing nothing, as the code does.
ChildrenConcatTruthy ==
    lastChildren.returned =
        ConcatAll([i \in 1..Len(lastChildren.converted) |->
                     IF Truthy(lastChildren.converted[i])
                     THEN lastChildren.converted[i] ELSE Null])

\* The children [A, null, B] of the spec's example give [A, B].
ChildrenExample ==
    /\ Len(lastChildren.converted) = 3
    /\ lastChildren.converted[1].t = "node"
    /\ lastChildren.converted[2] = Null
    /\ lastChildren.converted[3].t = "node"
    /\ lastChildren.returned = <<lastChildren.converted[1], lastChildren.converted[3]>>

\* A handler consumed a facet of the root item of the pass.
RootConsumed ==
    \E i \in 1..Len(consumeLog) : consumeLog[i].node = passItem /\ consumeLog[i].ok

\* No handler is registered for the notification of the root item.
RootUnhandled ==
    \A h \in 1..Len(listeners) : ~IsPrefix(listeners[h].pat, NotificationOf(passItem))

\* C4 as stated: convert returns null when no registered handler consumes
\* the root item.
NullUnlessConsumed ==
    result.done /\ ~RootConsumed => result.value = Null

\* C4 as amended: convert returns null when no registered handler writes
\* data.output of the root item's record, in particular when no handler is
\* registered for the root's notification.
NullUnlessWritten ==
    result.done =>
        /\ 2 \notin writes => result.value = Null
        /\ RootUnhandled => result.value = Null

\* Handlers ran for the root, none wrote its output, and the caller's
\* additionalData carried an output of its own.
NullUnlessWrittenWitness ==
    /\ result.done
    /\ 2 \notin writes
    /\ lastFire.ran # <<>>
    /\ recs[1].output # Undefined
    /\ result.value = Null

RECURSIVE Ascending(_)
Ascending(S) ==
    IF S = {} THEN <<>>
    ELSE LET m == CHOOSE x \in S : \A y \in S : x <= y
         IN <<m>> \o Ascending(S \ {m})

\* The handlers the spec says run for the notification of item n: those
\* registered on its name and, for an element, those registered on the
\* namespace "element", in registration order.
HandlersFor(n) ==
    Ascending({h \in 1..Len(listeners) :
                  \/ listeners[h].pat = NotificationOf(n)
                  \/ view[n].kind = "element" /\ listeners[h].pat = <<"element">>})

\* C5: the handlers of one notification run in registration order, one at a
\* time, and the handlers registered on the namespace "element" run for
\* every element:<name> notification, at their place in that order: at any
\* moment the handlers that ran, the one running and those still to run are
\* together the registered handlers of the item, in registration order.
HandlersInRegistrationOrder ==
    /\ \A i \in 1..Len(stack) :
          stack[i].k = "item" =>
              stack[i].ran
                  \o (IF i < Len(stack) /\ stack[i + 1].k = "handler"
                      THEN <<stack[i + 1].h>> ELSE <<>>)
                  \o stack[i].hs = HandlersFor(stack[i].node)
    /\ lastFire.node # 0 => lastFire.ran = HandlersFor(lastFire.node)

\* An element notification finished for which a namespace handler ran
\* between two handlers registered on the element's name.
HandlersInRegistrationOrderWitness ==
    /\ lastFire.node # 0
    /\ Len(lastFire.ran) = 3
    /\ listeners[lastFire.ran[1]].pat = NotificationOf(lastFire.node)
    /\ listeners[lastFire.ran[2]].pat = <<"element">>
    /\ listeners[lastFire.ran[3]].pat = NotificationOf(lastFire.node)

\* C6: within one pass a facet of a view node is consumed at most once: a
\* consume call succeeds exactly when all its facets were created for the
\* pass and no earlier call of the pass consumed one of them, and fails by
\* returning false otherwise.
ConsumedAtMostOnce ==
    \A j \in 1..Len(consumeLog) :
        LET c == consumeLog[j]
            earlier == {i \in 1..(j - 1) :
                           /\ consumeLog[i].node = c.node
                           /\ consumeLog[i].ok
                           /\ consumeLog[i].facets \cap c.facets # {}}
        IN c.ok <=> (earlier = {} /\ \A f \in c.facets : <<c.node, f>> \in snapshot)

\* The same facet of the same node was consumed with success, then asked
\* for again and refused.
ConsumedAtMostOnceWitness ==
    \E i, j \in 1..Len(consumeLog) :
        /\ i < j
        /\ consumeLog[i].node = consumeLog[j].node
        /\ consumeLog[i].facets = consumeLog[j].facets
        /\ consumeLog[i].ok
        /\ ~consumeLog[j].ok

\* Every record a _convertItem call built holds its item as input, holds
\* output null until a handler of its own notification writes it, and holds
\* the other fields of the additionalData it was built from.
RecordIsFresh ==
    /\ recs # <<>> => recs[1] \in CallerData
    /\ \A i \in 1..Len(stack) :
          stack[i].k = "item" =>
              /\ {"input", "output"} \subseteq recs[stack[i].data].has
              /\ recs[stack[i].data].input = stack[i].node
              /\ stack[i].data \notin writes => recs[stack[i].data].output = Null
    /\ \A i \in 2..Len(log) :
          /\ "context" \in recs[log[i].data].has <=> "context" \in DataArg(log[i].ad).has
          /\ recs[log[i].data].context = DataArg(log[i].ad).context

\* A step that builds a record changes no record that existed before.
BuildsWithoutWriting ==
    Len(recs') = Len(recs) + 1 => \A i \in 1..Len(recs) : recs'[i] = recs[i]

\* C7: every convertItem call builds a new record with input = the item and
\* output = null, also from an additionalData that carries input and output;
\* the dispatcher writes nothing on the additionalData it was given, and the
\* other injected fields are carried over by reference.
FreshRecordPerItem == []RecordIsFresh /\ [][BuildsWithoutWriting]_vars

\* A handler wrote its output and then handed its data record to convertItem:
\* the record built for the child holds output null.
FreshRecordPerItemWitness ==
    /\ stack # <<>>
    /\ Top.k = "item"
    /\ Top.ran = <<>>
    /\ log[Len(log)].ad > 1
    /\ recs[log[Len(log)].ad].output.t = "node"
    /\ recs[Top.data].output = Null
    /\ recs[Top.data].context = 1

\* The size the spec gives a node: a text node counts its characters, an
\* element counts one.
SizeOf(spec) == IF spec.kind = "text" THEN Len(spec.data) ELSE 1

RECURSIVE TotalSize(_)
TotalSize(specs) ==
    IF specs = <<>> THEN 0 ELSE SizeOf(Head(specs)) + TotalSize(Tail(specs))

\* The insert operation of the spec's scenario.
ScenarioArgs ==
    [position |-> Position(0),
     nodes |-> <<TextSpec(<<"a", "b">>), ElementSpec("x", <<>>)>>,
     baseVersion |-> 5]

\* C8: getReversed() returns a removal at the position of the insert, of
\* width the total size of the inserted nodes, with baseVersion + 1 (for
\* (root, 0), [Text("ab"), Element("x")], 5: (root, 0), width 3, 6), the
\* same before and after _execute.
ReversedIsRemoval ==
    rev # NoOperation =>
        /\ rev = [position |-> args.position, howMany |-> TotalSize(args.nodes),
                  baseVersion |-> args.baseVersion + 1]
        /\ args = ScenarioArgs =>
              rev = [position |-> Position(0), howMany |-> 3, baseVersion |-> 6]

\* getReversed() of the scenario, called after _execute and after the
\* inserted node objects were changed by later edits.
ReversedIsRemovalWitness ==
    /\ rev # NoOperation
    /\ args = ScenarioArgs
    /\ phase = "edited"
    /\ SpecsOf(mnodes, originals) # args.nodes

\* C9: applying an insert operation and then at once its getReversed()
\* restores the content and offsets of the document, and the version has
\* advanced by exactly 2.
RoundTripRestores ==
    phase = "reverted" =>
        /\ ~threw
        /\ Units(mnodes, docRoot) = before.content
        /\ version = before.version + 2

\* A round trip of an insertion inside a text node, whose inserted text was
\* merged with its neighbours.
RoundTripRestoresWitness ==
    /\ phase = "reverted"
    /\ ~threw
    /\ args.position = Position(1)
    /\ Len(before.content) = 2
    /\ args.nodes[Len(args.nodes)].kind = "text"
    /\ version = 7

\* The content of the root when specs are inserted at an offset.
InsertedInto(content, off, specs) ==
    LET heap == AllocList(<<>>, specs)
    IN SubSeq(content, 1, off) \o Units(heap.heap, heap.ids)
          \o SubSeq(content, off + 1, Len(content))

\* C10: _execute inserts the node objects the operation held, and from then
\* on the operation holds deep clones taken before the insert: whatever the
\* insertion and later edits do to the inserted nodes, the operation's nodes
\* stay equal in content, order and total size to the nodes as inserted.
NodesKeptAsInserted ==
    phase # "new" =>
        /\ SpecsOf(mnodes, op.nodes) = args.nodes
        /\ MaxOffset(mnodes, op.nodes) = TotalSize(args.nodes)
        /\ Descendants(mnodes, op.nodes) \cap Descendants(mnodes, originals) = {}
        /\ Descendants(mnodes, op.nodes) \cap Descendants(mnodes, docRoot) = {}
        /\ phase = "inserted" =>
              /\ Units(mnodes, docRoot)
                    = InsertedInto(before.content, args.position.path[1], args.nodes)
              /\ \A i \in 1..Len(originals) :
                    mnodes[originals[i]].kind = "element" =>
                        \E j \in 1..Len(docRoot) : docRoot[j] = originals[i]

\* Later edits merged text into an inserted text node and added a child to
\* an inserted element.
NodesKeptAsInsertedWitness ==
    /\ phase = "edited"
    /\ \E i \in 1..Len(originals) :
          /\ mnodes[originals[i]].kind = "element"
          /\ mnodes[originals[i]].ch # <<>>
          /\ args.nodes[i].ch = <<>>
    /\ \E i \in 1..Len(originals) :
          /\ mnodes[originals[i]].kind = "text"
          /\ mnodes[originals[i]].data # args.nodes[i].data

\* C11: clone() returns an operation with the position and the baseVersion
\* of the original and a deep copy of its nodes that shares no node object
\* with it at any depth; executing the clone and changing the nodes it
\* inserted leave the nodes and the position of the original as they were.
CloneIsIndependent ==
    copy # NoInsert =>
        /\ copy.position = op.position
        /\ copy.baseVersion = op.baseVersion
        /\ SpecsOf(mnodes, copy.nodes) = SpecsOf(mnodes, op.nodes)
        /\ Descendants(mnodes, copy.nodes) \cap Descendants(mnodes, op.nodes) = {}
        /\ SpecsOf(mnodes, op.nodes) = args.nodes
        /\ op.position = args.position
        /\ phase = "new" =>
              Descendants(mnodes, op.nodes) \cap Descendants(mnodes, docRoot) = {}

\* The original and its clone were both executed, and a later edit added a
\* child to an element the clone inserted.
CloneIsIndependentWitness ==
    /\ copy # NoInsert
    /\ phase = "edited"
    /\ executed = <<originals>>
    /\ \E i \in 1..Len(docRoot) :
          /\ docRoot[i] \notin Descendants(mnodes, originals)
          /\ mnodes[docRoot[i]].kind = "element"
          /\ mnodes[docRoot[i]].name = "x"
          /\ mnodes[docRoot[i]].ch # <<>>
          /\ \E k \in 1..Len(args.nodes) :
                args.nodes[k].name = "x" /\ args.nodes[k].ch = <<>>

\* The nodes mix elements and text nodes.
Mixed(specs) ==
    /\ \E i \in 1..Len(specs) : specs[i].kind = "element"
    /\ \E i \in 1..Len(specs) : specs[i].kind = "text"

\* The content of the root after o._execute().
ExecutedContent(o) ==
    LET done == Execute(mnodes, docRoot, o) IN Units(done.heap, done.kids)

\* C12: the operation fromJSON rebuilds from the serialized form of an
\* operation whose nodes mix elements and text nodes has the baseVersion,
\* the position and the ordered node list of that operation, and executed
\* on the same document it gives the same tree shape and offsets.
RebuiltExecutesAlike ==
    (rebuilt # NoInsert /\ Mixed(args.nodes)) =>
        /\ rebuilt.baseVersion = op.baseVersion
        /\ rebuilt.position = op.position
        /\ SpecsOf(mnodes, rebuilt.nodes) = SpecsOf(mnodes, op.nodes)
        /\ ExecutedContent(rebuilt) = ExecutedContent(op)

\* What does hold: the round trip of an operation none of whose elements
\* has the empty name.
RebuiltAlikeWhenNamed ==
    (rebuilt # NoInsert /\ \A i \in 1..Len(args.nodes) : args.nodes[i].kind = "element"
                                                            => args.nodes[i].name # "") =>
        /\ rebuilt.baseVersion = op.baseVersion
        /\ rebuilt.position = op.position
        /\ SpecsOf(mnodes, rebuilt.nodes) = SpecsOf(mnodes, op.nodes)
        /\ ExecutedContent(rebuilt) = ExecutedContent(op)

\* C18: fromJSON rebuilds the children in list order, a record that has a
\* name field as an element and a record without one as a text node, also
\* when the name is the empty string; the rebuilt list is as long as
\* json.nodes.
DecodedByNameField ==
    rebuilt # NoInsert =>
        /\ Len(rebuilt.nodes) = Len(json.nodes)
        /\ \A i \in 1..Len(json.nodes) :
              LET child == json.nodes[i]
                  node == mnodes[rebuilt.nodes[i]]
              IN IF "name" \in child.has
                 THEN node.kind = "element" /\ node.name = child.name
                 ELSE node.kind = "text" /\ node.data = child.data

\* What does hold: the records are decoded in list order by the truthiness
\* of the name field.
DecodedByTruthyName ==
    rebuilt # NoInsert =>
        /\ Len(rebuilt.nodes) = Len(json.nodes)
        /\ \A i \in 1..Len(json.nodes) :
              LET child == json.nodes[i]
                  node == mnodes[rebuilt.nodes[i]]
              IN IF "name" \in child.has /\ child.name # ""
                 THEN node.kind = "element" /\ node.name = child.name
                 ELSE node.kind = "text"

\* The context array as the caller passed it.
InitialContext == IF "context" \in recs[1].has THEN <<0>> ELSE <<>>

\* C13: a pass runs to completion or not at all: an error a handler raises
\* reaches the caller of convert, no further handler or notification of
\* the pass runs, and the pass leaves no partial effect: no facet consumed,
\* no change to the data the caller injected.
AllOrNothing ==
    result = Raised =>
        /\ stack = <<>>
        /\ consumable = snapshot
        /\ ctx = InitialContext

\* The step in which a handler raises runs nothing else of the pass.
RaiseEndsPass ==
    (result' = Raised /\ result # Raised) =>
        /\ stack' = <<>>
        /\ UNCHANGED <<log, recs, ctx, writes, view>>

\* After the error nothing of the pass runs: the next notification is the
\* viewCleanup of a new convert call.
NothingAfterRaise ==
    result = Raised =>
        \/ UNCHANGED <<log, recs, ctx, consumable, consumeLog, writes, view>>
        \/ result' = NotReturned /\ log' = ConvertFires(passItem')

\* C13, as it holds: an error a handler raises is not caught: it reaches the
\* caller of convert in place of a return value and no further handler or
\* notification of the pass runs; what the pass did before the error stays.
ErrorReachesCaller ==
    /\ [](result = Raised => stack = <<>>)
    /\ [][RaiseEndsPass]_vars
    /\ [][NothingAfterRaise]_vars

\* A text converter raised below a converter that had pushed its element:
\* the text is consumed and the element is still on the caller's context.
ErrorReachesCallerWitness ==
    /\ result = Raised
    /\ stack = <<>>
    /\ Len(ctx) > Len(InitialContext)
    /\ consumable # snapshot
    /\ Len(log) >= 3

\* C14: the operation owns its position: whatever the caller does to the
\* position object it passed to the constructor, the position of the
\* operation and of its clone, the place where _execute inserts and the
\* position of getReversed() stay the position given at construction.
OwnsPosition ==
    /\ op.position = args.position
    /\ copy # NoInsert => copy.position = args.position
    /\ rev # NoOperation => rev.position = args.position
    /\ (phase = "inserted" /\ edits = 0) =>
          Units(mnodes, docRoot)
             = InsertedInto(before.content, args.position.path[1], args.nodes)

\* The caller moved its position object; after that the operation was
\* cloned, executed and reversed.
OwnsPositionWitness ==
    /\ PositionOf(positions.caller) # args.position
    /\ copy # NoInsert
    /\ rev # NoOperation
    /\ phase = "inserted"
    /\ edits = 0
    /\ args.nodes # <<>>
    /\ before.content # <<>>

RECURSIVE PreOrderList(_, _), PreOrder(_, _)
PreOrderList(v, ns) ==
    IF ns = <<>> THEN <<>> ELSE PreOrder(v, Head(ns)) \o PreOrderList(v, Tail(ns))

\* The nodes of a subtree in depth-first pre-order, children in document order.
PreOrder(v, n) == <<n>> \o PreOrderList(v, v[n].kids)

\* The place of a node in a sequence that holds it.
IndexIn(seq, n) == CHOOSE i \in 1..Len(seq) : seq[i] = n

\* The items notified in the pass so far, in order.
Notified == [i \in 1..Len(log) - 1 |-> log[i + 1].node]

\* Every handler recurses only by calling convertChildren on its own input,
\* at most once.
OnlyConvertChildren == \A h \in 1..Len(listeners) : listeners[h].beh.recurse # "item"

\* The handlers of an item that call convertChildren.
Recursing(n) ==
    {h \in 1..Len(listeners) :
        /\ IsPrefix(listeners[h].pat, NotificationOf(n))
        /\ listeners[h].beh.recurse = "children"}

\* convert() has returned and no handler was registered since.
Returned == result.done /\ lastFire.data = 2

\* The notifications come in pre-order, one at most for a node.
InPreOrder ==
    LET order == PreOrder(view, passItem)
    IN /\ \A i \in 1..Len(Notified) : \E k \in 1..Len(order) : order[k] = Notified[i]
       /\ \A i, j \in 1..Len(Notified) :
             i < j => IndexIn(order, Notified[i]) < IndexIn(order, Notified[j])

\* An item below the converted one is notified while a handler of its
\* parent waits in convertChildren.
InsideParentCall ==
    \A i \in 1..Len(stack) :
        (stack[i].k = "item" /\ stack[i].node # passItem) =>
            /\ i > 2
            /\ stack[i - 1].k = "children"
            /\ stack[i - 2].k = "handler"
            /\ stack[i - 2].node = stack[i - 1].node
            /\ \E c \in 1..Len(view[stack[i - 1].node].kids) :
                  view[stack[i - 1].node].kids[c] = stack[i].node

\* C15: when every handler recurses only by convertChildren on its own
\* input, at most once, the notifications of a pass fire in depth-first
\* pre-order, at most one for each node of the subtree and exactly one when
\* every handler of a node with children recurses, the notifications of the
\* descendants of a node inside the handler call of that node.
DepthFirstOnce ==
    (OnlyConvertChildren /\ InPass /\ Len(log) > 1) =>
        /\ InPreOrder
        /\ InsideParentCall
        /\ (Returned /\ \A n \in Subtree(view, passItem) :
                            view[n].kids # <<>> => Recursing(n) # {})
              => Notified = PreOrder(view, passItem)

\* At most one of the handlers registered for the notification of an item
\* calls convertChildren.
OneRecursion == \A n \in Subtree(view, passItem) : Cardinality(Recursing(n)) <= 1

\* A handler of the item calls convertChildren whenever the item is
\* notified: it does so always, or it does so when its consume call succeeds
\* and no other handler of the item consumes what it consumes.
SurelyRecurses(n) ==
    \E h \in Recursing(n) :
        \/ listeners[h].beh.cond = "always"
        \/ /\ listeners[h].beh.cond = "ifConsumed"
           /\ \A g \in 1..Len(listeners) :
                 (g # h /\ IsPrefix(listeners[g].pat, NotificationOf(n))) =>
                     listeners[g].beh.consume \cap listeners[h].beh.consume = {}

\* The traversal with one recursing handler for an item.
DepthFirstOnceEach ==
    (InPass /\ Len(log) > 1 /\ OnlyConvertChildren /\ OneRecursion) =>
        /\ InPreOrder
        /\ InsideParentCall
        /\ (Returned /\ \A n \in Subtree(view, passItem) :
                            view[n].kids # <<>> => SurelyRecurses(n))
              => Notified = PreOrder(view, passItem)

\* C15, as it holds: when every handler recurses only by convertChildren on
\* its own input and at most one of the handlers registered for the
\* notification of an item does so, convert terminates and the notifications
\* fire in depth-first pre-order, at most one for a node, those of the
\* descendants of a node inside the handler call of that node.
DepthFirstTraversal ==
    /\ []DepthFirstOnceEach
    /\ (OnlyConvertChildren /\ stack # <<>>) ~> (stack = <<>>)

\* A pass over the fragment notified the fragment, the paragraph, the text
\* below the paragraph and then the text next to the paragraph.
DepthFirstTraversalWitness ==
    /\ result.done
    /\ OnlyConvertChildren
    /\ OneRecursion
    /\ Notified = PreOrder(view, passItem)
    /\ Len(Notified) >= 4
    /\ SubSeq(Notified, 1, 4) = <<1, 2, 5, 3>>

\* The parent of an item below the root of the tree.
ParentOf(v, n) ==
    CHOOSE m \in DOMAIN v : \E c \in 1..Len(v[m].kids) : v[m].kids[c] = n

RECURSIVE AncestorsOf(_, _, _)
\* The ancestors of an item of the converted subtree, from the converted
\* item down to the parent.
AncestorsOf(v, top, n) ==
    IF n = top THEN <<>> ELSE Append(AncestorsOf(v, top, ParentOf(v, n)), ParentOf(v, n))

IsElement(n) == view[n].kind = "element"

\* Every element handler that recurses pushes its model element on context
\* before it calls convertChildren with its data, and pops it after.
PushesAroundChildren ==
    \A h \in 1..Len(listeners) :
        (listeners[h].pat[1] = "element" /\ listeners[h].beh.recurse # "no") =>
            /\ listeners[h].beh.recurse = "children"
            /\ listeners[h].beh.push
            /\ listeners[h].beh.ad = "data"

\* C16: the context array of additionalData is shared by the whole
\* traversal: when every element handler pushes its model element around
\* its convertChildren call, the context a handler is invoked with is the
\* initial context followed by the model elements of the item's converted
\* ancestors, root to parent, and when convert returns the context is the
\* initial one.
ContextIsAncestors ==
    (InPass /\ PushesAroundChildren /\ "context" \in recs[1].has) =>
        /\ (stack # <<>> /\ Top.k = "item" /\ Top.hs # <<>>) =>
              /\ recs[Top.data].context = recs[1].context
              /\ ctx = InitialContext
                        \o SelectSeq(AncestorsOf(view, passItem, Top.node), IsElement)
        /\ result.done => ctx = InitialContext

\* The handler of a text below two nested blocks is invoked with both
\* blocks on the context, the outer one first.
ContextIsAncestorsWitness ==
    /\ stack # <<>>
    /\ PushesAroundChildren
    /\ Top.k = "item"
    /\ Top.hs # <<>>
    /\ Top.node = 5
    /\ ctx = <<0, 1, 2>>

\* The pass kept is a pass of the handlers registered now over the tree as
\* it is now, for the same item.
SamePass == prev.kept /\ prev.listeners = listeners /\ prev.view = view /\ prev.item = passItem

\* C17: the dispatcher keeps nothing of a pass for the next convert call:
\* every call creates its Consumable Tracker anew from the subtree as the
\* viewCleanup handlers left it, so what one pass consumed is consumable
\* again in the next, and with the same handlers and the same view tree two
\* successive calls fire the same notifications and return equal outputs.
NoStateBetweenPasses ==
    Len(recs) >= 2 =>
        /\ snapshot = CreateFrom(view, passItem)
        /\ consumeLog = <<>> => consumable = snapshot
        /\ (SamePass /\ Returned) =>
              /\ Fired(log) = prev.fired
              /\ result.value = prev.value
              /\ snapshot \ consumable = prev.consumed

\* The second of two equal passes returned; the first one had consumed
\* facets and returned an output.
NoStateBetweenPassesWitness ==
    /\ SamePass
    /\ Returned
    /\ prev.consumed # {}
    /\ prev.value # Null
    /\ Len(log) >= 3
    /\ \E h \in 1..Len(listeners) : listeners[h].beh.prune

\* The next callback to run is the documentation's element:p converter.
ParagraphStarts ==
    /\ stack # <<>>
    /\ Top.k = "item"
    /\ Top.hs # <<>>
    /\ listeners[Head(Top.hs)].beh = DocParagraph
    /\ stack' # stack

\* The callback on top consumes the name of its item and converts the
\* children with the paragraph pushed on context.
ConvertsAsParagraph ==
    /\ <<Top.node, "name">> \notin consumable'
    /\ Len(stack') = Len(stack) + 2
    /\ stack'[Len(stack')].k = "children"
    /\ stack'[Len(stack')].kids = view[Top.node].kids
    /\ "context" \in recs[Top.data].has => ctx' = Append(ctx, Top.node)

\* The callback on top ends without an output and without converting.
DeclinesToConvert ==
    /\ Len(stack') = Len(stack)
    /\ UNCHANGED <<recs, ctx, writes, log>>

\* The documentation's converter, back from convertChildren, pops the
\* context and sets data.output to the paragraph holding the children.
ParagraphEnds ==
    (Len(stack) > 1 /\ Top.k = "handler" /\ listeners[Top.h].beh = DocParagraph
        /\ stack' # stack) =>
        /\ recs'[Top.data].output.t = "node"
        /\ recs'[Top.data].output.id = Top.node
        /\ ctx' = IF "context" \in recs[Top.data].has THEN Pop(ctx) ELSE ctx

\* C19: the element:p converter of the class documentation, on a <p> whose
\* name is still consumable (the schema check passing), consumes the name,
\* converts the children with the paragraph pushed on context and sets
\* data.output to the paragraph holding them; on a <p> whose name was
\* consumed already it produces no output.
ParagraphAsDocumented ==
    /\ [][ParagraphStarts =>
            IF <<Top.node, "name">> \in consumable
            THEN ConvertsAsParagraph ELSE DeclinesToConvert]_vars
    /\ [][ParagraphEnds]_vars

\* What the printed converter does: its body is guarded by the negated
\* consume call, so it consumes a consumable name and ends, and converts
\* when the name was consumed already.
ParagraphAsPrinted ==
    /\ [][ParagraphStarts =>
            IF <<Top.node, "name">> \in consumable
            THEN DeclinesToConvert /\ <<Top.node, "name">> \notin consumable'
            ELSE ConvertsAsParagraph]_vars
    /\ [][ParagraphEnds]_vars

\* The node objects of a list and below it.
ObjectsOf(ids) == Descendants(mnodes, ids)

\* No node object the operation holds is in the document, and no node
\* object was inserted by two _execute calls.
HeldNodesAreApart ==
    /\ ObjectsOf(op.nodes) \cap ObjectsOf(docRoot) = {}
    /\ \A i \in 1..Len(executed) : ObjectsOf(op.nodes) \cap ObjectsOf(executed[i]) = {}
    /\ \A i, j \in 1..Len(executed) :
          i < j => ObjectsOf(executed[i]) \cap ObjectsOf(executed[j]) = {}

\* An _execute call inserts the list the operation held before the call and
\* leaves the operation with clones that are new objects.
ExecuteSwapsNodes ==
    executed' # executed =>
        /\ executed' = Append(executed, op.nodes)
        /\ \A i \in 1..Len(op.nodes) :
              mnodes[op.nodes[i]].kind = "element" =>
                  \E k \in 1..Len(docRoot') : docRoot'[k] = op.nodes[i]
        /\ \A i \in 1..Len(op'.nodes) : op'.nodes[i] \notin DOMAIN mnodes
        /\ SpecsOf(mnodes', op'.nodes) = SpecsOf(mnodes, op.nodes)

\* C20: after any number of _execute calls on one insert operation no node
\* object the operation holds is part of the document tree, and no node
\* object is inserted by two different _execute calls: each call inserts
\* the list held before it and replaces it with new clones.
ExecuteNeverReusesNodes == []HeldNodesAreApart /\ [][ExecuteSwapsNodes]_vars

\* The operation was executed three times; all its elements are in the
\* document, three times over.
ExecuteNeverReusesNodesWitness ==
    /\ Len(executed) >= 3
    /\ \E i \in 1..Len(op.nodes) : mnodes[op.nodes[i]].kind = "element"
    /\ \E i \in 1..Len(op.nodes) : mnodes[op.nodes[i]].kind = "text"
    /\ Len(Units(mnodes, docRoot)) = Len(before.content) + 3 * TotalSize(args.nodes)

====
